---- MODULE Spec2Model ----
(***************************************************************************)
(* NeuroNote (src/src/App.jsx): the retry wrapper fetchWithBackoff, the    *)
(* study-pack generation and speech requests of App, the remote profile    *)
(* of useFirebase, the flashcard deck and the quiz grader, as one state    *)
(* machine.  Times are integer milliseconds.                               *)
(***************************************************************************)
EXTENDS Integers, Sequences, FiniteSets, TLC

VARIABLES
    \* ---- one call of fetchWithBackoff (App.jsx:97-114)
    fbPc,         \* "idle" | "fetching" | "waiting" | "returned" | "threw"
    fbRetries,    \* the parameter `retries` of the current invocation
    fbRequests,   \* fetch(url, options) calls issued by this call so far
    fbHistory,    \* the outcomes of those requests, oldest first
    fbDelay,      \* the delay of the last setTimeout of this call (0: none yet)
    fbPrevDelay,  \* the delay of the setTimeout before that one (0: none yet)
    fbResult,     \* what the call returned or threw
    \* ---- App (App.jsx:225-237)
    apiKey,        \* the API key is non-empty
    inputText,     \* the pasted text is non-empty
    uploadedFiles, \* uploadedFiles.length
    pendingReads,  \* FileReaders started by handleImageUpload, not yet ended
    loading,
    studyData,     \* NoPack (null) or the parsed study pack
    activeTab,
    error,         \* "" or the message set
    ttsAudioUrl,   \* 0 (null) or the audio element the object URL was made for
    isTtsLoading,
    genCalls,      \* generateStudyPack invocations awaiting fetchWithBackoff
    genStarted,    \* generateStudyPack invocations so far
    ttsInFlight,   \* generateTts invocations awaiting fetchWithBackoff
    audios,        \* the Audio elements created on line 306, by playback state
    \* ---- useFirebase (App.jsx:119-220)
    signedIn,      \* db and userId are set
    remote,        \* the profile document in the remote store
    userData,      \* the local snapshot of it
    snapshotDue,   \* the listener of line 191 has a snapshot to deliver
    xpInitial,     \* ledger: the xp of the remote profile at start
    xpEarned,      \* ledger: the rewards of the events whose write succeeded
    rewardEvents,  \* ledger: reward events so far (generation, quiz, deck)
    \* ---- FlashcardDeck (App.jsx:1035-1061)
    currentIndex,
    isFlipped,
    timers,        \* the pending setTimeout callbacks, in the order they fire
    \* ---- QuizModule (App.jsx:1142-1199)
    answers,       \* the answer map: question index -> answer
    showResults

fetchVars == <<fbPc, fbRetries, fbRequests, fbHistory, fbDelay, fbPrevDelay, fbResult>>

inputVars == <<apiKey, inputText, uploadedFiles, pendingReads>>

viewVars == <<loading, studyData, activeTab, error>>

ttsVars == <<ttsAudioUrl, isTtsLoading, ttsInFlight, audios>>

genVars == <<genCalls, genStarted>>

profileVars == <<signedIn, remote, userData, snapshotDue>>

ledgerVars == <<xpInitial, xpEarned, rewardEvents>>

deckVars == <<currentIndex, isFlipped>>

quizVars == <<answers, showResults>>

appVars ==
    <<inputVars, viewVars, ttsVars, genVars, profileVars, ledgerVars, deckVars, timers, quizVars>>

vars == <<fetchVars, appVars>>

(***************************************************************************)
(* Configuration                                                           *)
(***************************************************************************)
MAX_RETRIES == 5

\* Math.random() * 500: the jitter lies in [0, 500); setTimeout truncates the
\* delay to whole milliseconds.
JITTER_MS == 500

\* The jitter values explored: both ends of the range and its middle.
JitterValues == {0, JITTER_MS \div 2, JITTER_MS - 1}

\* HTTP statuses a request may answer with.
Statuses == {200, 204, 400, 404, 429, 500, 502, 503, 504}

Response(status) == [kind |-> "response", status |-> status]
NetworkError == [kind |-> "error", status |-> 0]
NoResult == [kind |-> "none", status |-> 0]

\* What one fetch(url, options) can do: resolve with a response or reject.
Outcomes == {Response(s) : s \in Statuses} \cup {NetworkError}

(***************************************************************************)
(* fetchWithBackoff                                                        *)
(***************************************************************************)
\* Response.ok: the status is in the range 200-299.
ResponseOk(status) == status >= 200 /\ status <= 299

shouldRetryAll5xx(status) == status = 429 \/ (status >= 500 /\ status <= 599)

shouldRetryNo503(status) == status = 429 \/ status = 500

shouldRetry(status) == status = 429 \/ status = 500 \/ status = 503

RECURSIVE Pow2(_)
Pow2(n) == IF n = 0 THEN 1 ELSE 2 * Pow2(n - 1)

statusDelayNoExponent(retries, jitter) == 1000 + jitter

\* line 101: the delay on the retryable-status path.
statusDelay(retries, jitter) == Pow2(retries) * 1000 + jitter

errorDelayLinear(retries, jitter) == (retries + 1) * 1000 + jitter

\* line 108: the delay on the network-failure path.
errorDelay(retries, jitter) == Pow2(retries) * 1000 + jitter

decideOffByOne(outcome, retries) ==
    IF outcome.kind = "response"
    THEN IF ~ResponseOk(outcome.status) /\ shouldRetry(outcome.status)
            /\ retries <= MAX_RETRIES
         THEN "retry" ELSE "return"
    ELSE IF retries <= MAX_RETRIES THEN "retry" ELSE "throw"

decideThrowsOnStatus(outcome, retries) ==
    IF outcome.kind = "response"
    THEN IF ~ResponseOk(outcome.status) /\ shouldRetry(outcome.status)
         THEN IF retries < MAX_RETRIES THEN "retry" ELSE "throw"
         ELSE "return"
    ELSE IF retries < MAX_RETRIES THEN "retry" ELSE "throw"

\* What one invocation does with the outcome of its request: the condition of
\* line 100 on a response, the one of line 107 on a rejection.
decide(outcome, retries) ==
    IF outcome.kind = "response"
    THEN IF ~ResponseOk(outcome.status) /\ shouldRetry(outcome.status)
            /\ retries < MAX_RETRIES
         THEN "retry" ELSE "return"
    ELSE IF retries < MAX_RETRIES THEN "retry" ELSE "throw"

\* The invocation fetchWithBackoff(url, options) of a caller: retries = 0,
\* first request.
invoked ==
    /\ fbPc \in {"idle", "returned", "threw"}
    /\ fbPc' = "fetching"
    /\ fbRetries' = 0
    /\ fbRequests' = 1
    /\ fbHistory' = <<>>
    /\ fbDelay' = 0
    /\ fbPrevDelay' = 0
    /\ fbResult' = NoResult

\* A caller invokes fetchWithBackoff(url, options).
fetchWithBackoff ==
    /\ invoked
    /\ UNCHANGED appVars

\* `await fetch(url, options)` settles and the invocation runs to its next
\* await (the setTimeout promise) or to its return or throw.
fetchSettles(outcome) ==
    /\ fbPc = "fetching"
    /\ fbHistory' = Append(fbHistory, outcome)
    /\ \/ /\ decide(outcome, fbRetries) = "retry"
          /\ \E jitter \in JitterValues :
                fbDelay' = IF outcome.kind = "response"
                           THEN statusDelay(fbRetries, jitter)
                           ELSE errorDelay(fbRetries, jitter)
          /\ fbPrevDelay' = fbDelay
          /\ fbPc' = "waiting"
          /\ UNCHANGED fbResult
       \/ /\ decide(outcome, fbRetries) = "return"
          /\ fbPc' = "returned"
          /\ fbResult' = outcome
          /\ UNCHANGED <<fbDelay, fbPrevDelay>>
       \/ /\ decide(outcome, fbRetries) = "throw"
          /\ fbPc' = "threw"
          /\ fbResult' = outcome
          /\ UNCHANGED <<fbDelay, fbPrevDelay>>
    /\ UNCHANGED <<fbRetries, fbRequests>>
    /\ UNCHANGED appVars

\* The timer fires: `return fetchWithBackoff(url, options, retries + 1)`.
backoffElapses ==
    /\ fbPc = "waiting"
    /\ fbPc' = "fetching"
    /\ fbRetries' = fbRetries + 1
    /\ fbRequests' = fbRequests + 1
    /\ UNCHANGED <<fbHistory, fbDelay, fbPrevDelay, fbResult>>
    /\ UNCHANGED appVars

InitFetch ==
    /\ fbPc = "idle"
    /\ fbRetries = 0
    /\ fbRequests = 0
    /\ fbHistory = <<>>
    /\ fbDelay = 0
    /\ fbPrevDelay = 0
    /\ fbResult = NoResult

(***************************************************************************)
(* JavaScript values and strings                                           *)
(***************************************************************************)
\* A value of the parsed JSON or of the answer map: its type tag, its number
\* (booleans as 0 and 1) and its characters.  `===` is equality of these.
Undefined == [t |-> "undefined", n |-> 0, s |-> <<>>]
JsNumber(n) == [t |-> "number", n |-> n, s |-> <<>>]
JsBoolean(b) == [t |-> "boolean", n |-> IF b THEN 1 ELSE 0, s |-> <<>>]
JsString(s) == [t |-> "string", n |-> 0, s |-> s]

Digits == <<"0", "1", "2", "3", "4", "5", "6", "7", "8", "9">>

\* String(value), for the numbers 0..9.
String(value) ==
    CASE value.t = "string" -> value.s
      [] value.t = "undefined" -> <<"u", "n", "d", "e", "f", "i", "n", "e", "d">>
      [] value.t = "boolean" ->
            IF value.n = 1 THEN <<"t", "r", "u", "e">> ELSE <<"f", "a", "l", "s", "e">>
      [] value.t = "number" -> <<Digits[value.n + 1]>>

IsWhiteSpace(c) == c = " "

RECURSIVE trimStart(_)
trimStart(s) ==
    IF s # <<>> /\ IsWhiteSpace(Head(s)) THEN trimStart(Tail(s)) ELSE s

RECURSIVE trimEnd(_)
trimEnd(s) ==
    IF s # <<>> /\ IsWhiteSpace(s[Len(s)])
    THEN trimEnd(SubSeq(s, 1, Len(s) - 1))
    ELSE s

\* String.prototype.trim
trim(s) == trimEnd(trimStart(s))

lowerOf(c) ==
    CASE c = "A" -> "a"
      [] c = "B" -> "b"
      [] OTHER -> c

\* String.prototype.toLowerCase, over the letters a, b, A, B
toLowerCase(s) == [i \in 1..Len(s) |-> lowerOf(s[i])]

(***************************************************************************)
(* Study packs                                                             *)
(***************************************************************************)
\* A question object of the parsed JSON; a field the response leaves out is
\* undefined.  `options` is the length of a multiple-choice question's options.
McQuestion(options, correctIndex) ==
    [options |-> options, correctIndex |-> correctIndex, answer |-> Undefined]
TfQuestion(answer) == [options |-> 0, correctIndex |-> Undefined, answer |-> answer]
FibQuestion(answer) == [options |-> 0, correctIndex |-> Undefined, answer |-> answer]

\* An array field of the quiz object, which the response may leave out.
Absent == [present |-> FALSE, items |-> <<>>]
List(items) == [present |-> TRUE, items |-> items]

\* list || []
OrEmpty(list) == IF list.present THEN list.items ELSE <<>>

QuizData(mc, tf, fib) == [multiple_choice |-> mc, true_false |-> tf, fill_in_blank |-> fib]

EmptyQuiz == QuizData(Absent, Absent, Absent)

\* One question of each type.
SampleQuiz ==
    QuizData(List(<<McQuestion(2, JsNumber(1))>>), List(<<TfQuestion(JsBoolean(TRUE))>>),
             List(<<FibQuestion(JsString(<<"a">>))>>))

Pack(id, content) ==
    [id |-> id, text |-> content.text, flashcards |-> content.flashcards,
     mnemonics |-> content.mnemonics, quiz |-> content.quiz]

NoContent == [text |-> FALSE, flashcards |-> 0, mnemonics |-> 0, quiz |-> EmptyQuiz]

\* studyData = null
NoPack == Pack(0, NoContent)

\* What JSON.parse(resultText) of line 458 can yield: a full pack, with two
\* mnemonics, and a pack with no summary text, one flashcard, no mnemonic and
\* no question.
ResponseContents ==
    {[text |-> TRUE, flashcards |-> 2, mnemonics |-> 2, quiz |-> SampleQuiz],
     [text |-> FALSE, flashcards |-> 1, mnemonics |-> 0, quiz |-> EmptyQuiz]}

(***************************************************************************)
(* useFirebase: the remote profile and its local snapshot                  *)
(***************************************************************************)
\* A JavaScript number that may be NaN; `units` counts sixtieths (the score
\* ratios of quizzes of up to six questions are whole sixtieths).
Num(units) == [nan |-> FALSE, units |-> units]
NaN == [nan |-> TRUE, units |-> 0]

\* useState of line 124: the snapshot before the first onSnapshot callback.
DefaultUserData ==
    [xp |-> 0, streak |-> 0, badges |-> <<>>,
     fc_learned |-> 0, quiz_attempts |-> 0, quiz_total_score |-> Num(0)]

\* initialData of line 196.
InitialData ==
    [xp |-> 0, streak |-> 0, badges |-> <<"Starter">>,
     fc_learned |-> 0, quiz_attempts |-> 0, quiz_total_score |-> Num(0)]

ProfileFields == DOMAIN InitialData

\* The document of a user who has used the app before.
ReturningUserData ==
    [xp |-> 100, streak |-> 1, badges |-> <<"Starter">>,
     fc_learned |-> 2, quiz_attempts |-> 1, quiz_total_score |-> Num(30)]

NoDocument == [exists |-> FALSE, data |-> InitialData]
Document(data) == [exists |-> TRUE, data |-> data]

\* updateDoc(userDocRef, updates): the fields named replace the document's.
Merged(data, updates) ==
    [f \in ProfileFields |-> IF f \in DOMAIN updates THEN updates[f] ELSE data[f]]

\* Whether updateUserData(updates) changes the document: it returns at once
\* without db and userId (line 213), and updateDoc rejects when the document
\* does not exist or when the store refuses the write (`accepted` false).
WriteSucceeds(doc, accepted) == signedIn /\ doc.exists /\ accepted

\* The document after updateUserData(updates) (lines 212-217).
updateUserData(doc, updates, accepted) ==
    IF WriteSucceeds(doc, accepted)
    THEN Document(Merged(doc.data, updates))
    ELSE doc

\* onAuthStateChanged reports a user (lines 166-169); the effect of line 184
\* then subscribes to the profile document.
onAuthStateChanged ==
    /\ ~signedIn
    /\ signedIn' = TRUE
    /\ snapshotDue' = TRUE
    /\ UNCHANGED <<remote, userData>>
    /\ UNCHANGED <<fetchVars, inputVars, viewVars, ttsVars, genVars, ledgerVars,
                   deckVars, timers, quizVars>>

onSnapshotAlwaysSeeds ==
    /\ signedIn
    /\ snapshotDue
    /\ snapshotDue' = FALSE
    /\ remote' = Document(InitialData)
    /\ userData' = InitialData
    /\ UNCHANGED signedIn
    /\ UNCHANGED <<fetchVars, inputVars, viewVars, ttsVars, genVars, ledgerVars,
                   deckVars, timers, quizVars>>

\* The listener of lines 191-203.  A missing document is seeded with
\* initialData, and the local snapshot follows when setDoc resolves.
onSnapshot ==
    /\ signedIn
    /\ snapshotDue
    /\ snapshotDue' = FALSE
    /\ IF remote.exists
       THEN /\ userData' = remote.data
            /\ UNCHANGED remote
       ELSE \E accepted \in BOOLEAN :
               IF accepted
               THEN remote' = Document(InitialData) /\ userData' = InitialData
               ELSE UNCHANGED <<remote, userData>>
    /\ UNCHANGED signedIn
    /\ UNCHANGED <<fetchVars, inputVars, viewVars, ttsVars, genVars, ledgerVars,
                   deckVars, timers, quizVars>>

(***************************************************************************)
(* App: what is rendered                                                   *)
(***************************************************************************)
StudyTabs == {"summary", "map", "cards", "hacks", "quiz"}
Tabs == {"input", "chat"} \cup StudyTabs

InputSectionRenderedWhileLoading == activeTab = "input"

\* line 526
InputSectionRendered == activeTab = "input" /\ ~loading

\* line 680: the generate button is not disabled.
GenerateEnabled == apiKey /\ (inputText \/ uploadedFiles > 0)

\* line 550: the dashboard, with HeaderControls.
DashboardRendered == (studyData # NoPack \/ activeTab = "chat") /\ ~loading

\* lines 561-564
SummaryModuleRendered ==
    DashboardRendered /\ studyData # NoPack /\ activeTab = "summary"

\* line 580
FlashcardDeckRendered ==
    DashboardRendered /\ studyData # NoPack /\ activeTab = "cards"

\* line 586
QuizModuleRendered ==
    DashboardRendered /\ studyData # NoPack /\ activeTab = "quiz"

\* line 583
MemoryHacksModuleRendered ==
    DashboardRendered /\ studyData # NoPack /\ activeTab = "hacks"

\* lines 1121-1130: studyData.mnemonics.map renders one card per element;
\* the number of cards of the view.
MnemonicCards == studyData.mnemonics

EmptyStateNever == FALSE

\* lines 1132-1136: the empty-state message is rendered.
EmptyStateShown == studyData.mnemonics = 0

\* line 867: the speak button is not disabled.
SpeakEnabled == studyData # NoPack /\ ~isTtsLoading

EmptyAnswers == [i \in {} |-> Undefined]

\* The useState values of FlashcardDeck (lines 1036-1037) and QuizModule
\* (lines 1143-1144) live while the component is rendered: a component that
\* leaves the tree loses them, one that enters it starts from the initial ones.
\* A timeout of an unmounted FlashcardDeck still fires, on a dead component.
ComponentStateFollows ==
    /\ IF FlashcardDeckRendered /\ FlashcardDeckRendered'
       THEN UNCHANGED <<deckVars, timers>>
       ELSE /\ currentIndex' = 0
            /\ isFlipped' = FALSE
            /\ timers' = [i \in 1..Len(timers) |-> [timers[i] EXCEPT !.mounted = FALSE]]
    /\ IF QuizModuleRendered /\ QuizModuleRendered'
       THEN UNCHANGED quizVars
       ELSE answers' = EmptyAnswers /\ showResults' = FALSE

(***************************************************************************)
(* App: the input form                                                     *)
(***************************************************************************)
\* The files one run uploads.
MaxFiles == 1

\* The header's key field (line 516) is always rendered.
setApiKey(present) ==
    /\ apiKey # present
    /\ apiKey' = present
    /\ UNCHANGED <<inputText, uploadedFiles, pendingReads>>
    /\ UNCHANGED <<fetchVars, viewVars, ttsVars, genVars, profileVars, ledgerVars,
                   deckVars, timers, quizVars>>

\* The textarea of line 674.
setInputText(present) ==
    /\ InputSectionRendered
    /\ inputText # present
    /\ inputText' = present
    /\ UNCHANGED <<apiKey, uploadedFiles, pendingReads>>
    /\ UNCHANGED <<fetchVars, viewVars, ttsVars, genVars, profileVars, ledgerVars,
                   deckVars, timers, quizVars>>

\* lines 339-352: a FileReader is started for the chosen file.
handleImageUpload ==
    /\ InputSectionRendered
    /\ uploadedFiles + pendingReads < MaxFiles
    /\ pendingReads' = pendingReads + 1
    /\ UNCHANGED <<apiKey, inputText, uploadedFiles>>
    /\ UNCHANGED <<fetchVars, viewVars, ttsVars, genVars, profileVars, ledgerVars,
                   deckVars, timers, quizVars>>

\* lines 343-349: reader.onloadend appends the file.
onloadend ==
    /\ pendingReads > 0
    /\ pendingReads' = pendingReads - 1
    /\ uploadedFiles' = uploadedFiles + 1
    /\ UNCHANGED <<apiKey, inputText>>
    /\ UNCHANGED <<fetchVars, viewVars, ttsVars, genVars, profileVars, ledgerVars,
                   deckVars, timers, quizVars>>

\* lines 354-356
removeFile ==
    /\ InputSectionRendered
    /\ uploadedFiles > 0
    /\ uploadedFiles' = uploadedFiles - 1
    /\ UNCHANGED <<apiKey, inputText, pendingReads>>
    /\ UNCHANGED <<fetchVars, viewVars, ttsVars, genVars, profileVars, ledgerVars,
                   deckVars, timers, quizVars>>

(***************************************************************************)
(* App: generateStudyPack                                                  *)
(***************************************************************************)
\* The generation requests one run starts.
MaxGenerations == 2

\* How the awaited request of line 435 and the parsing after it can end: a
\* parsed value, an error object in the body, a body without candidates,
\* text that is not JSON, or fetchWithBackoff throwing.
GenFailures == {"api_error", "malformed", "bad_json", "rejected"}

\* What JSON.parse(resultText) of line 458 returns without throwing: the
\* object of a pack, or null for the JSON text `null` (NoContent stands for it).
ParsedValues == ResponseContents \cup {NoContent}

GenResults ==
    {[kind |-> "pack", content |-> c] : c \in ParsedValues}
       \cup {[kind |-> k, content |-> NoContent] : k \in GenFailures}

\* lines 358-368 and the request of line 435: the click on the generate
\* button.  The invocation closes over the userData and the updateUserData
\* (with its userId) of this render.
clickGenerate ==
    /\ InputSectionRendered
    /\ GenerateEnabled
    /\ genStarted < MaxGenerations
    /\ genStarted' = genStarted + 1
    /\ IF ~inputText /\ uploadedFiles = 0
       THEN /\ error' = "undefined"
            /\ UNCHANGED <<loading, studyData, ttsAudioUrl, genCalls>>
       ELSE /\ loading' = TRUE
            /\ error' = ""
            /\ studyData' = NoPack
            /\ ttsAudioUrl' = 0
            /\ genCalls' = genCalls \cup
                  {[serial |-> genStarted + 1, xp |-> userData.xp, userId |-> signedIn,
                    files |-> uploadedFiles]}
    /\ UNCHANGED <<activeTab, isTtsLoading, ttsInFlight, audios>>
    /\ ComponentStateFollows
    /\ UNCHANGED <<inputVars, profileVars, ledgerVars>>

\* generateStudyPack, its request taken as one step that ends later.
generateStudyPack ==
    /\ clickGenerate
    /\ UNCHANGED fetchVars

\* generateStudyPack with the steps of its fetchWithBackoff call (line 435).
generateStudyPackAwaits ==
    /\ clickGenerate
    /\ IF ~inputText /\ uploadedFiles = 0
       THEN UNCHANGED fetchVars
       ELSE invoked

\* How generateStudyPack can go on after its fetchWithBackoff call: a throw
\* is caught on line 466; a response returned, of whatever status, is read
\* as JSON (line 450), which may fail as well.
ResultsAfter(fbOutcome) ==
    IF fbOutcome.kind = "error"
    THEN {r \in GenResults : r.kind = "rejected"}
    ELSE GenResults

FailureMessageEmpty(result) == ""

\* line 467: the message the catch block sets (non-empty for every err).
FailureMessage(result) == "generate"

parsedDataOfFirstCall(call, result) == Pack(1, result.content)

\* line 458: the value parsed from the response of `call`.
parsedData(call, result) ==
    IF result.content = NoContent THEN NoPack ELSE Pack(call.serial, result.content)

generationSettlesNoFinally(call, result, accepted) ==
    /\ call \in genCalls
    /\ genCalls' = genCalls \ {call}
    /\ loading' = (result.kind # "pack")
    /\ IF result.kind = "pack"
       THEN /\ studyData' = parsedData(call, result)
            /\ activeTab' = "summary"
            /\ remote' = updateUserData(remote, [f \in {"xp"} |-> call.xp + 50],
                                        call.userId /\ accepted)
            /\ xpEarned' = xpEarned +
                  IF WriteSucceeds(remote, call.userId /\ accepted) THEN 50 ELSE 0
            /\ snapshotDue' = (snapshotDue \/ WriteSucceeds(remote, call.userId /\ accepted))
            /\ UNCHANGED error
       ELSE /\ error' = FailureMessage(result)
            /\ UNCHANGED <<studyData, activeTab, remote, xpEarned, snapshotDue>>
    /\ ComponentStateFollows
    /\ UNCHANGED <<genStarted, signedIn, userData, xpInitial, rewardEvents>>
    /\ UNCHANGED <<fetchVars, inputVars, ttsVars>>

\* lines 450-471: the request of `call` has ended with `result`.  The XP
\* award adds 50 to the xp of the snapshot the invocation closed over, and
\* the updateUserData it closed over writes only with a userId (line 213).
generationSettles(call, result, accepted) ==
    /\ call \in genCalls
    /\ genCalls' = genCalls \ {call}
    /\ loading' = FALSE
    /\ IF result.kind = "pack"
       THEN /\ studyData' = parsedData(call, result)
            /\ activeTab' = "summary"
            /\ remote' = updateUserData(remote, [f \in {"xp"} |-> call.xp + 50],
                                        call.userId /\ accepted)
            /\ xpEarned' = xpEarned +
                  IF WriteSucceeds(remote, call.userId /\ accepted) THEN 50 ELSE 0
            /\ snapshotDue' = (snapshotDue \/ WriteSucceeds(remote, call.userId /\ accepted))
            /\ UNCHANGED error
       ELSE /\ error' = FailureMessage(result)
            /\ UNCHANGED <<studyData, activeTab, remote, xpEarned, snapshotDue>>
    /\ ComponentStateFollows
    /\ UNCHANGED <<genStarted, signedIn, userData, xpInitial, rewardEvents>>
    /\ UNCHANGED <<fetchVars, inputVars, ttsVars>>

\* The continuation of generateStudyPack after its fetchWithBackoff call has
\* returned or thrown.
generationResumes(call, result, accepted) ==
    /\ fbPc \in {"returned", "threw"}
    /\ result \in ResultsAfter(fbResult)
    /\ generationSettles(call, result, accepted)

(***************************************************************************)
(* HeaderControls                                                          *)
(***************************************************************************)
\* lines 726-773: the tab buttons; the study tabs exist only with a pack.
setActiveTab(tab) ==
    /\ DashboardRendered
    /\ tab \in StudyTabs => studyData # NoPack
    /\ tab # activeTab
    /\ activeTab' = tab
    /\ UNCHANGED <<loading, studyData, error>>
    /\ ComponentStateFollows
    /\ UNCHANGED <<fetchVars, inputVars, ttsVars, genVars, profileVars, ledgerVars>>

\* lines 704-710
handleNewSession ==
    /\ DashboardRendered
    /\ studyData' = NoPack
    /\ activeTab' = "input"
    /\ uploadedFiles' = 0
    /\ inputText' = FALSE
    /\ ttsAudioUrl' = 0
    /\ UNCHANGED <<apiKey, pendingReads, loading, error, isTtsLoading, ttsInFlight, audios>>
    /\ ComponentStateFollows
    /\ UNCHANGED <<fetchVars, genVars, profileVars, ledgerVars>>

(***************************************************************************)
(* App: generateTts                                                        *)
(***************************************************************************)
\* The speech requests in flight at once, and the Audio elements alive at once.
MaxTtsInFlight == 2
MaxAudios == 1

AudioIds == 1..MaxAudios

\* lines 257-290: the click on the speak button of SummaryModule, with
\* textToSpeak = getFullSummaryText().  With an audio URL set the click only
\* clears it (lines 264-271): the element paused there is a new one.
generateTts ==
    /\ SummaryModuleRendered
    /\ SpeakEnabled
    /\ IF ~apiKey \/ isTtsLoading \/ ~studyData.text
       THEN UNCHANGED <<ttsAudioUrl, isTtsLoading, ttsInFlight>>
       ELSE IF ttsAudioUrl # 0
       THEN /\ ttsAudioUrl' = 0
            /\ isTtsLoading' = FALSE
            /\ UNCHANGED ttsInFlight
       ELSE /\ ttsInFlight < MaxTtsInFlight
            /\ isTtsLoading' = TRUE
            /\ ttsInFlight' = ttsInFlight + 1
            /\ UNCHANGED ttsAudioUrl
    /\ UNCHANGED audios
    /\ UNCHANGED <<fetchVars, inputVars, viewVars, genVars, profileVars, ledgerVars,
                   deckVars, timers, quizVars>>

\* lines 292-311: the response carries audio; the element is created and
\* play() is called.
speechArrives(id) ==
    /\ ttsInFlight > 0
    /\ audios[id] = "none"
    /\ \A other \in AudioIds : other < id => audios[other] # "none"
    /\ ttsInFlight' = ttsInFlight - 1
    /\ ttsAudioUrl' = id
    /\ audios' = [audios EXCEPT ![id] = "starting"]
    /\ UNCHANGED isTtsLoading
    /\ UNCHANGED <<fetchVars, inputVars, viewVars, genVars, profileVars, ledgerVars,
                   deckVars, timers, quizVars>>

\* lines 312-320: no audio in the response, or fetchWithBackoff threw.
speechFails ==
    /\ ttsInFlight > 0
    /\ ttsInFlight' = ttsInFlight - 1
    /\ error' = "speech"
    /\ isTtsLoading' = FALSE
    /\ UNCHANGED <<ttsAudioUrl, audios, loading, studyData, activeTab>>
    /\ UNCHANGED <<fetchVars, inputVars, genVars, profileVars, ledgerVars,
                   deckVars, timers, quizVars>>

\* line 307: play() rejects; the failure is logged.
playRejected(id) ==
    /\ audios[id] = "starting"
    /\ audios' = [audios EXCEPT ![id] = "none"]
    /\ UNCHANGED <<ttsAudioUrl, isTtsLoading, ttsInFlight>>
    /\ UNCHANGED <<fetchVars, inputVars, viewVars, genVars, profileVars, ledgerVars,
                   deckVars, timers, quizVars>>

\* line 309
onplaying(id) ==
    /\ audios[id] = "starting"
    /\ audios' = [audios EXCEPT ![id] = "playing"]
    /\ isTtsLoading' = FALSE
    /\ UNCHANGED <<ttsAudioUrl, ttsInFlight>>
    /\ UNCHANGED <<fetchVars, inputVars, viewVars, genVars, profileVars, ledgerVars,
                   deckVars, timers, quizVars>>

\* line 310
onended(id) ==
    /\ audios[id] = "playing"
    /\ audios' = [audios EXCEPT ![id] = "none"]
    /\ ttsAudioUrl' = 0
    /\ isTtsLoading' = FALSE
    /\ UNCHANGED ttsInFlight
    /\ UNCHANGED <<fetchVars, inputVars, viewVars, genVars, profileVars, ledgerVars,
                   deckVars, timers, quizVars>>

(***************************************************************************)
(* FlashcardDeck                                                           *)
(***************************************************************************)
\* The rewards FlashcardDeck and QuizModule issue in one run, and the
\* timeouts pending at once.
MaxRewards == 2
MaxTimers == 2

\* The callback handed to setTimeout by handleNext or handlePrev, with what
\* it closed over: currentIndex, cards.length and the userData of its render.
Timeout(kind) ==
    [kind |-> kind, currentIndex |-> currentIndex, cards |-> studyData.flashcards,
     xp |-> userData.xp, fc_learned |-> userData.fc_learned, mounted |-> TRUE]

\* line 1049: the callback rewards the completion of the deck.
Rewards(t) == t.kind = "next" /\ t.currentIndex = t.cards - 1

PendingRewards == Cardinality({i \in 1..Len(timers) : Rewards(timers[i])})

\* lines 1043-1056, up to the setTimeout call.
handleNext ==
    /\ FlashcardDeckRendered
    /\ Len(timers) < MaxTimers
    /\ Rewards(Timeout("next")) => rewardEvents + PendingRewards < MaxRewards
    /\ isFlipped' = FALSE
    /\ timers' = Append(timers, Timeout("next"))
    /\ UNCHANGED currentIndex
    /\ UNCHANGED <<fetchVars, inputVars, viewVars, ttsVars, genVars, profileVars,
                   ledgerVars, quizVars>>

\* lines 1058-1061, up to the setTimeout call.
handlePrev ==
    /\ FlashcardDeckRendered
    /\ Len(timers) < MaxTimers
    /\ isFlipped' = FALSE
    /\ timers' = Append(timers, Timeout("prev"))
    /\ UNCHANGED currentIndex
    /\ UNCHANGED <<fetchVars, inputVars, viewVars, ttsVars, genVars, profileVars,
                   ledgerVars, quizVars>>

\* line 1072: a click on the card.
onClickCard ==
    /\ FlashcardDeckRendered
    /\ isFlipped' = ~isFlipped
    /\ UNCHANGED <<currentIndex, timers>>
    /\ UNCHANGED <<fetchVars, inputVars, viewVars, ttsVars, genVars, profileVars,
                   ledgerVars, quizVars>>

\* The index a callback sets: line 1046 from the index it closed over, the
\* updater of line 1060 from the current one.
nextIndex(t) ==
    IF t.kind = "next"
    THEN (t.currentIndex + 1) % t.cards
    ELSE (currentIndex - 1 + t.cards) % t.cards

\* lines 1045-1055 and 1060: the oldest timeout fires, 150 ms after it was
\* set.  The effect of lines 1063-1065 follows a change of currentIndex.
timeoutFires(accepted) ==
    /\ timers # <<>>
    /\ LET t == Head(timers) IN
          /\ timers' = Tail(timers)
          /\ IF t.mounted
             THEN /\ currentIndex' = nextIndex(t)
                  /\ isFlipped' = (isFlipped /\ nextIndex(t) = currentIndex)
             ELSE UNCHANGED deckVars
          /\ IF Rewards(t)
             THEN /\ remote' = updateUserData(remote,
                                  [f \in {"fc_learned", "xp"} |->
                                      IF f = "xp" THEN t.xp + 100
                                      ELSE t.fc_learned + t.cards],
                                  accepted)
                  /\ xpEarned' = xpEarned + IF WriteSucceeds(remote, accepted) THEN 100 ELSE 0
                  /\ snapshotDue' = (snapshotDue \/ WriteSucceeds(remote, accepted))
                  /\ rewardEvents' = rewardEvents + 1
             ELSE UNCHANGED <<remote, xpEarned, snapshotDue, rewardEvents>>
    /\ UNCHANGED <<signedIn, userData, xpInitial>>
    /\ UNCHANGED <<fetchVars, inputVars, viewVars, ttsVars, genVars, quizVars>>

(***************************************************************************)
(* QuizModule                                                              *)
(***************************************************************************)
\* list.map(q => ({ ...q, type }))
WithType(list, type) ==
    [i \in 1..Len(list) |->
        [type |-> type, options |-> list[i].options,
         correctIndex |-> list[i].correctIndex, answer |-> list[i].answer]]

allQuestionsOf(quizData) ==
    WithType(OrEmpty(quizData.multiple_choice), "mc")
       \o WithType(OrEmpty(quizData.true_false), "tf")
       \o WithType(OrEmpty(quizData.fill_in_blank), "fib")

\* lines 1146-1150; allQuestions[qIndex] of the code is allQuestions[qIndex + 1].
allQuestions == allQuestionsOf(studyData.quiz)

\* line 1151
totalQuestions == Len(allQuestions)

\* answers[qIndex]
answerAt(qIndex) == IF qIndex \in DOMAIN answers THEN answers[qIndex] ELSE Undefined

\* What the input field of a fill-in-blank question can hold.
TypedStrings == {<<>>, <<"a">>, <<" ", "A", " ">>, <<"a", " ", "b">>, <<" ">>}

\* The values the controls of question q pass to handleAnswer (lines 1249,
\* 1278 and 1294).
ValuesOf(q) ==
    CASE q.type = "mc" -> {JsNumber(optIdx) : optIdx \in 0..(q.options - 1)}
      [] q.type = "tf" -> {JsBoolean(bool) : bool \in BOOLEAN}
      [] q.type = "fib" -> {JsString(s) : s \in TypedStrings}

handleAnswerAfterResults(qIndex, value) ==
    /\ QuizModuleRendered
    /\ qIndex \in 0..(totalQuestions - 1)
    /\ value \in ValuesOf(allQuestions[qIndex + 1])
    /\ answers' = [i \in DOMAIN answers \cup {qIndex} |->
                      IF i = qIndex THEN value ELSE answers[i]]
    /\ UNCHANGED showResults
    /\ UNCHANGED <<fetchVars, inputVars, viewVars, ttsVars, genVars, profileVars,
                   ledgerVars, deckVars, timers>>

\* lines 1154-1157
handleAnswer(qIndex, value) ==
    /\ QuizModuleRendered
    /\ qIndex \in 0..(totalQuestions - 1)
    /\ value \in ValuesOf(allQuestions[qIndex + 1])
    /\ IF showResults
       THEN UNCHANGED answers
       ELSE answers' = [i \in DOMAIN answers \cup {qIndex} |->
                           IF i = qIndex THEN value ELSE answers[i]]
    /\ UNCHANGED showResults
    /\ UNCHANGED <<fetchVars, inputVars, viewVars, ttsVars, genVars, profileVars,
                   ledgerVars, deckVars, timers>>

\* line 1159
isQuestionAnswered(qIndex) ==
    /\ answerAt(qIndex) # Undefined
    /\ \/ trim(String(answerAt(qIndex))) # <<>>
       \/ allQuestions[qIndex + 1].type # "fib"

isCorrectNoTrim(q, userAnswer) ==
    CASE q.type = "mc" -> userAnswer = q.correctIndex
      [] q.type = "tf" -> userAnswer = q.answer
      [] q.type = "fib" -> toLowerCase(String(userAnswer)) = toLowerCase(String(q.answer))
      [] OTHER -> FALSE

isCorrectNoLowerCase(q, userAnswer) ==
    CASE q.type = "mc" -> userAnswer = q.correctIndex
      [] q.type = "tf" -> userAnswer = q.answer
      [] q.type = "fib" -> trim(String(userAnswer)) = trim(String(q.answer))
      [] OTHER -> FALSE

\* lines 1166-1173
isCorrect(q, userAnswer) ==
    CASE q.type = "mc" -> userAnswer = q.correctIndex
      [] q.type = "tf" -> userAnswer = q.answer
      [] q.type = "fib" ->
            toLowerCase(trim(String(userAnswer))) = toLowerCase(trim(String(q.answer)))
      [] OTHER -> FALSE

callbackNoUndefinedCheck(acc, q, qIdx) ==
    acc + (IF isCorrect(q, answerAt(qIdx)) THEN 1 ELSE 0)

\* The callback of the reduce (lines 1162-1175): (acc, q, qIdx) => ...
callback(acc, q, qIdx) ==
    IF answerAt(qIdx) = Undefined
    THEN acc
    ELSE acc + (IF isCorrect(q, answerAt(qIdx)) THEN 1 ELSE 0)

\* allQuestions.reduce(callback, acc), from index qIdx on.
RECURSIVE reduce(_, _)
reduce(acc, qIdx) ==
    IF qIdx >= totalQuestions
    THEN acc
    ELSE reduce(callback(acc, allQuestions[qIdx + 1], qIdx), qIdx + 1)

\* lines 1161-1176
calculateScore == reduce(0, 0)

scoreOnlyWithResults == IF showResults THEN calculateScore ELSE 0

\* line 1178
score == calculateScore

\* line 1312: the submit button is not disabled.
SubmitEnabled ==
    /\ Cardinality(DOMAIN answers) = totalQuestions
    /\ ~\E qIndex \in DOMAIN answers : answers[qIndex] = JsString(<<>>)

\* line 1315: Object.keys(answers).filter(isQuestionAnswered).length, the
\* counter shown on the submit button.
answeredCount == Cardinality({qIndex \in DOMAIN answers : isQuestionAnswered(qIndex)})

\* s / n in sixtieths; 0 / 0 is NaN.
Quotient(s, n) == IF n = 0 THEN NaN ELSE Num((60 * s) \div n)

\* line 1183
percentage == Quotient(score, totalQuestions)

\* a > tenths / 10; every comparison with NaN is false.
GreaterThan(a, tenths) == ~a.nan /\ a.units > 6 * tenths

rewardXpForTiersSwapped(p) ==
    IF GreaterThan(p, 8) THEN 100
    ELSE IF GreaterThan(p, 5) THEN 200
    ELSE 50

\* percentage > 0.8 ? 200 : percentage > 0.5 ? 100 : 50
rewardXpFor(p) ==
    IF GreaterThan(p, 8) THEN 200
    ELSE IF GreaterThan(p, 5) THEN 100
    ELSE 50

\* line 1184
rewardXp == rewardXpFor(percentage)

\* a + b
Plus(a, b) == IF a.nan \/ b.nan THEN NaN ELSE Num(a.units + b.units)

QuizUpdatesAttemptsKept ==
    [xp |-> userData.xp + rewardXp,
     quiz_attempts |-> userData.quiz_attempts,
     quiz_total_score |-> Plus(userData.quiz_total_score, percentage)]

\* The argument of the updateUserData call of lines 1186-1190.
QuizUpdates ==
    [xp |-> userData.xp + rewardXp,
     quiz_attempts |-> userData.quiz_attempts + 1,
     quiz_total_score |-> Plus(userData.quiz_total_score, percentage)]

handleSubmitQuizAwaitsWrite(accepted, acceptedStreak) ==
    /\ QuizModuleRendered
    /\ ~showResults
    /\ SubmitEnabled
    /\ rewardEvents + PendingRewards < MaxRewards
    /\ showResults' = accepted
    /\ LET afterFirst == updateUserData(remote, QuizUpdates, accepted) IN
          /\ remote' = updateUserData(afterFirst,
                                      [f \in {"streak"} |-> userData.streak + 1],
                                      acceptedStreak)
          /\ snapshotDue' = (\/ snapshotDue
                             \/ WriteSucceeds(remote, accepted)
                             \/ WriteSucceeds(afterFirst, acceptedStreak))
    /\ xpEarned' = xpEarned + IF WriteSucceeds(remote, accepted) THEN rewardXp ELSE 0
    /\ rewardEvents' = rewardEvents + 1
    /\ UNCHANGED <<answers, signedIn, userData, xpInitial>>
    /\ UNCHANGED <<fetchVars, inputVars, viewVars, ttsVars, genVars, deckVars, timers>>

\* lines 1180-1194, with the two writes of updateUserData.
handleSubmitQuiz(accepted, acceptedStreak) ==
    /\ QuizModuleRendered
    /\ ~showResults
    /\ SubmitEnabled
    /\ rewardEvents + PendingRewards < MaxRewards
    /\ showResults' = TRUE
    /\ LET afterFirst == updateUserData(remote, QuizUpdates, accepted) IN
          /\ remote' = updateUserData(afterFirst,
                                      [f \in {"streak"} |-> userData.streak + 1],
                                      acceptedStreak)
          /\ snapshotDue' = (\/ snapshotDue
                             \/ WriteSucceeds(remote, accepted)
                             \/ WriteSucceeds(afterFirst, acceptedStreak))
    /\ xpEarned' = xpEarned + IF WriteSucceeds(remote, accepted) THEN rewardXp ELSE 0
    /\ rewardEvents' = rewardEvents + 1
    /\ UNCHANGED <<answers, signedIn, userData, xpInitial>>
    /\ UNCHANGED <<fetchVars, inputVars, viewVars, ttsVars, genVars, deckVars, timers>>

\* lines 1196-1199
handleRetake ==
    /\ QuizModuleRendered
    /\ showResults
    /\ showResults' = FALSE
    /\ answers' = EmptyAnswers
    /\ UNCHANGED <<fetchVars, inputVars, viewVars, ttsVars, genVars, profileVars,
                   ledgerVars, deckVars, timers>>

(***************************************************************************)
(* Specifications                                                          *)
(***************************************************************************)
\* The documents the remote store may hold when the app starts.
InitialDocuments == {NoDocument, Document(ReturningUserData)}

\* The useState values of App (lines 225-237); the key may come from
\* localStorage.
InitApp ==
    /\ apiKey \in BOOLEAN
    /\ inputText = FALSE
    /\ uploadedFiles = 0
    /\ pendingReads = 0
    /\ loading = FALSE
    /\ studyData = NoPack
    /\ activeTab = "input"
    /\ error = ""
    /\ ttsAudioUrl = 0
    /\ isTtsLoading = FALSE
    /\ genCalls = {}
    /\ genStarted = 0
    /\ ttsInFlight = 0
    /\ audios = [id \in AudioIds |-> "none"]

InitProfile ==
    /\ signedIn = FALSE
    /\ remote \in InitialDocuments
    /\ userData = DefaultUserData
    /\ snapshotDue = FALSE
    /\ xpInitial = remote.data.xp
    /\ xpEarned = 0
    /\ rewardEvents = 0

InitComponents ==
    /\ currentIndex = 0
    /\ isFlipped = FALSE
    /\ timers = <<>>
    /\ answers = EmptyAnswers
    /\ showResults = FALSE

Init == InitFetch /\ InitApp /\ InitProfile /\ InitComponents

\* One call of fetchWithBackoff after another.
NextFetch ==
    \/ fetchWithBackoff
    \/ \E outcome \in Outcomes : fetchSettles(outcome)
    \/ backoffElapses

SpecFetch == Init /\ [][NextFetch]_vars

\* The input form, the profile subscription, generation and navigation.
NextGen ==
    \/ \E present \in BOOLEAN : setApiKey(present)
    \/ \E present \in BOOLEAN : setInputText(present)
    \/ handleImageUpload
    \/ onloadend
    \/ removeFile
    \/ onAuthStateChanged
    \/ onSnapshot
    \/ generateStudyPack
    \/ \E call \in genCalls, result \in GenResults, accepted \in BOOLEAN :
          generationSettles(call, result, accepted)
    \/ \E tab \in Tabs : setActiveTab(tab)
    \/ handleNewSession

SpecGen == Init /\ [][NextGen]_vars

\* The outcomes of the requests of a generation: success, a status that is
\* not retried, a status that is, and a network failure.
GenOutcomes == {Response(200), Response(400), Response(503), NetworkError}

\* The form filled in by a user with a key.
InitGenLive ==
    /\ Init
    /\ apiKey
    /\ remote.exists

\* Generation with the steps of its fetchWithBackoff call, and navigation.
NextGenLive ==
    \/ \E present \in BOOLEAN : setInputText(present)
    \/ generateStudyPackAwaits
    \/ \E outcome \in GenOutcomes : fetchSettles(outcome)
    \/ backoffElapses
    \/ \E call \in genCalls, result \in GenResults, accepted \in BOOLEAN :
          generationResumes(call, result, accepted)
    \/ \E tab \in Tabs : setActiveTab(tab)
    \/ handleNewSession

\* Every request of fetch resolves or rejects, every timer of setTimeout
\* fires, and a continuation whose promise has settled runs.
FairGen ==
    /\ WF_vars(\E outcome \in GenOutcomes : fetchSettles(outcome))
    /\ WF_vars(backoffElapses)
    /\ WF_vars(\E call \in genCalls, result \in GenResults, accepted \in BOOLEAN :
                  generationResumes(call, result, accepted))

SpecGenLive == InitGenLive /\ [][NextGenLive]_vars /\ FairGen

\* The speech requests and the audio elements.
NextSpeech ==
    \/ generateTts
    \/ \E id \in AudioIds : speechArrives(id)
    \/ speechFails
    \/ \E id \in AudioIds : playRejected(id)
    \/ \E id \in AudioIds : onplaying(id)
    \/ \E id \in AudioIds : onended(id)

\* Generation and the speech of the summary.
NextTts == NextGen \/ NextSpeech

SpecTts == Init /\ [][NextTts]_vars

\* The flashcard deck.
NextDeck ==
    \/ handleNext
    \/ handlePrev
    \/ onClickCard
    \/ \E accepted \in BOOLEAN : timeoutFires(accepted)

\* The quiz.
NextQuiz ==
    \/ \E qIndex \in 0..(totalQuestions - 1) :
          \E value \in ValuesOf(allQuestions[qIndex + 1]) : handleAnswer(qIndex, value)
    \/ \E accepted \in BOOLEAN, acceptedStreak \in BOOLEAN :
          handleSubmitQuiz(accepted, acceptedStreak)
    \/ handleRetake

\* The quizzes of the packs studied: one question of each type; none; a
\* correct index of 0, a question without correctIndex and an expected answer
\* with a capital and a trailing blank; a boolean sent as a string and a
\* fill-in-blank question without answer; two questions, of which the second
\* expects a text that is not typed.
QuizPool ==
    {SampleQuiz,
     EmptyQuiz,
     QuizData(List(<<McQuestion(2, JsNumber(0)), McQuestion(2, Undefined)>>), Absent,
              List(<<FibQuestion(JsString(<<"A", " ">>))>>)),
     QuizData(Absent,
              List(<<TfQuestion(JsBoolean(FALSE)), TfQuestion(JsString(<<"t", "r", "u", "e">>))>>),
              List(<<FibQuestion(Undefined)>>)),
     QuizData(Absent, List(<<TfQuestion(JsBoolean(TRUE))>>),
              List(<<FibQuestion(JsString(<<"b">>))>>))}

\* The app after its first generation, which yielded one of `contents` and
\* whose XP write the store refused: a returning user signed in, the profile
\* snapshot delivered, the pack shown on the summary tab.
InitStudy(contents) ==
    /\ InitFetch
    /\ apiKey = TRUE
    /\ inputText = TRUE
    /\ uploadedFiles = 0
    /\ pendingReads = 0
    /\ loading = FALSE
    /\ studyData \in {Pack(1, c) : c \in contents}
    /\ activeTab = "summary"
    /\ error = ""
    /\ ttsAudioUrl = 0
    /\ isTtsLoading = FALSE
    /\ genCalls = {}
    /\ genStarted = 1
    /\ ttsInFlight = 0
    /\ audios = [id \in AudioIds |-> "none"]
    /\ signedIn = TRUE
    /\ remote = Document(ReturningUserData)
    /\ userData = remote.data
    /\ snapshotDue = FALSE
    /\ xpInitial = remote.data.xp
    /\ xpEarned = 0
    /\ rewardEvents = 0
    /\ InitComponents

\* Navigation and the snapshots of the profile while a pack is studied.
NextBrowse ==
    \/ \E tab \in Tabs : setActiveTab(tab)
    \/ handleNewSession
    \/ onSnapshot

InitSpeech == InitStudy(ResponseContents)

\* The speech of the summary of a pack, and navigation.
NextSpeechLive ==
    \/ NextSpeech
    \/ \E tab \in Tabs : setActiveTab(tab)
    \/ handleNewSession

\* The request of a speech invocation ends, with audio or without; play()
\* resolves (the element fires `playing`) or rejects; a playing audio ends.
FairSpeech ==
    /\ WF_vars(speechFails \/ \E id \in AudioIds : speechArrives(id))
    /\ WF_vars(\E id \in AudioIds : onplaying(id) \/ playRejected(id))
    /\ WF_vars(\E id \in AudioIds : onended(id))

SpecSpeechLive == InitSpeech /\ [][NextSpeechLive]_vars /\ FairSpeech

\* Packs of one and of two flashcards.
DeckContents ==
    {[text |-> TRUE, flashcards |-> n, mnemonics |-> 1, quiz |-> SampleQuiz] : n \in 1..2}

InitDeck == InitStudy(DeckContents)

\* The study of the flashcards of a pack.
SpecDeck == InitDeck /\ [][NextBrowse \/ NextDeck]_vars

\* Packs with the quizzes of QuizPool.
QuizContents ==
    {[text |-> TRUE, flashcards |-> 1, mnemonics |-> 1, quiz |-> q] : q \in QuizPool}

InitQuiz == InitStudy(QuizContents)

\* The quiz of a pack.
SpecQuiz == InitQuiz /\ [][NextBrowse \/ NextQuiz]_vars

\* The whole app.
Next == NextGen \/ NextSpeech \/ NextDeck \/ NextQuiz

Spec == Init /\ [][Next]_vars

(***************************************************************************)
(* Properties of fetchWithBackoff                                          *)
(***************************************************************************)
LastOutcome == fbHistory[Len(fbHistory)]

\* The call has run past the outcome of its latest request.
Settled == fbPc \in {"waiting", "returned", "threw"}

\* Request i of the call was followed by another request, or by the delay that
\* leads to one.
Retried(i) == fbRequests > i \/ (i = Len(fbHistory) /\ fbPc = "waiting")

\* C1: another request follows a response only if that response is not ok and
\* its status is 429, 500 or 503; every other response is returned by the
\* attempt that received it, with no delay and no further request.
C1_RetryOnlyListedStatuses ==
    /\ \A i \in 1..Len(fbHistory) :
          (fbHistory[i].kind = "response" /\ Retried(i))
             => /\ fbHistory[i].status \in {429, 500, 503}
                /\ ~(fbHistory[i].status \in 200..299)
    /\ (/\ Settled
        /\ LastOutcome.kind = "response"
        /\ LastOutcome.status \notin {429, 500, 503})
          => /\ fbPc = "returned"
             /\ fbResult = LastOutcome
             /\ fbRequests = Len(fbHistory)

\* A 404 is returned at once by the second attempt, after a 503 was retried.
C1_Witness ==
    /\ fbPc = "returned"
    /\ Len(fbHistory) = 2
    /\ fbHistory[1] = Response(503)
    /\ fbResult = Response(404)
    /\ fbRequests = 2

\* C2: whatever the outcomes, one call issues at most MAX_RETRIES + 1 = 6
\* requests (at most 5 retries, network failures and retryable statuses on one
\* counter), and the outcome of the sixth ends the call.
C2_AtMostSixRequests ==
    /\ fbRequests <= 6
    /\ fbRetries <= 5
    /\ fbPc # "idle" => fbRequests = fbRetries + 1
    /\ Len(fbHistory) <= fbRequests
    /\ Len(fbHistory) = 6 => fbPc \in {"returned", "threw"}

\* Six requests, network failures and retryable statuses mixed.
C2_Witness ==
    /\ fbRequests = 6
    /\ Len(fbHistory) = 6
    /\ fbPc \in {"returned", "threw"}
    /\ \E i, j \in 1..5 : fbHistory[i] = NetworkError /\ fbHistory[j] = Response(429)

\* C3: the call returns the first response that is not retried (the first ok or
\* non-retryable one, or the one of the last allowed attempt whatever its
\* status), or throws the error of the last allowed attempt when that attempt
\* fails at the network level; it never throws for a status and never returns
\* after a network failure of the last attempt.
C3_ReturnsOrPropagates ==
    /\ fbPc = "returned" =>
          /\ fbResult = LastOutcome
          /\ fbResult.kind = "response"
          /\ \/ fbResult.status \in 200..299
             \/ fbResult.status \notin {429, 500, 503}
             \/ Len(fbHistory) = MAX_RETRIES + 1
          /\ \A i \in 1..(Len(fbHistory) - 1) :
                \/ fbHistory[i].kind = "error"
                \/ fbHistory[i].status \in {429, 500, 503}
    /\ fbPc = "threw" =>
          /\ fbResult = LastOutcome
          /\ fbResult.kind = "error"
          /\ Len(fbHistory) = MAX_RETRIES + 1
    /\ fbPc \in {"returned", "threw"} <=> fbResult # NoResult
    /\ (Settled /\ Len(fbHistory) = MAX_RETRIES + 1 /\ LastOutcome.kind = "error")
          => fbPc = "threw"

\* The last allowed attempt answers 429 and that response is returned.
C3_Witness ==
    /\ fbPc = "returned"
    /\ Len(fbHistory) = MAX_RETRIES + 1
    /\ fbResult = Response(429)

\* C4: within one call a delay is never smaller than the one before it,
\* whatever the jitter, and every delay is below 2^(MAX_RETRIES-1) seconds
\* plus the maximal jitter.
C4_DelayNonDecreasingBounded ==
    /\ fbPrevDelay <= fbDelay
    /\ fbDelay < Pow2(MAX_RETRIES - 1) * 1000 + 500

\* The largest jitter before the second retry, the smallest before the third.
C4_Witness ==
    /\ fbPc = "waiting"
    /\ fbRetries = 2
    /\ fbPrevDelay = 2499
    /\ fbDelay = 4000

\* C5: the delay after the attempt numbered `retries` is 2^retries seconds plus
\* a jitter in [0, 500) ms, on the retryable-status path and on the
\* network-failure path alike; a wait happens whenever the outcome is
\* retryable and retries < MAX_RETRIES, however long the call has waited.
C5_DelayFormula ==
    /\ fbPc = "waiting" =>
          /\ fbDelay - Pow2(fbRetries) * 1000 \in 0..499
          /\ fbRetries < MAX_RETRIES
    /\ (/\ Settled
        /\ fbRetries < MAX_RETRIES
        /\ \/ LastOutcome.kind = "error"
           \/ LastOutcome.status \in {429, 500, 503})
          => fbPc = "waiting"

\* The fifth wait (16 s), after a network failure, of a call that has already
\* waited 1 + 2 + 4 + 8 seconds, one of them after a retryable status.
C5_Witness ==
    /\ fbPc = "waiting"
    /\ fbRetries = 4
    /\ LastOutcome = NetworkError
    /\ fbHistory[1] = Response(500)
    /\ fbDelay >= 16000

\* C6 as stated: every network failure, every 5xx response and every 429
\* response is retried while retries remain.
C6_Original_All5xxRetried ==
    (/\ Settled
     /\ fbRetries < MAX_RETRIES
     /\ \/ LastOutcome.kind = "error"
        \/ LastOutcome.status \in 500..599
        \/ LastOutcome.status = 429)
       => fbPc = "waiting"

\* C6 amended: network failures and responses with status 429, 500 or 503 are
\* retried while retries remain; a response with any other 5xx status is
\* returned without a retry.
C6_TransientRetried ==
    /\ (/\ Settled
        /\ fbRetries < MAX_RETRIES
        /\ \/ LastOutcome.kind = "error"
           \/ LastOutcome.status \in {429, 500, 503})
          => fbPc = "waiting"
    /\ (/\ Settled
        /\ LastOutcome.kind = "response"
        /\ LastOutcome.status \in (500..599) \ {500, 503})
          => fbPc = "returned" /\ fbResult = LastOutcome

\* A 503 is being retried and, in another call, a 502 would not be: here the
\* third attempt's 503 leads to a wait.
C6_Witness ==
    /\ fbPc = "waiting"
    /\ fbRetries = 2
    /\ LastOutcome = Response(503)

\* C7: at any time at most one study-pack generation request is in flight:
\* while loading is true (from the start of generateStudyPack to its
\* completion) exactly one request is pending and no user action can start
\* another, and no request is pending while loading is false.
C7_AtMostOneGeneration ==
    /\ Cardinality(genCalls) <= 1
    /\ loading <=> genCalls # {}
    /\ loading => ~InputSectionRendered

\* A generation is in flight while the input tab is active, the form is
\* filled and the run may still start generations.
C7_Witness ==
    /\ loading
    /\ Cardinality(genCalls) = 1
    /\ activeTab = "input"
    /\ GenerateEnabled
    /\ genStarted < MaxGenerations

\* C8, as stated: at any time at most one speech-synthesis request is in
\* flight.
C8_Original_AtMostOneSpeechRequest == ttsInFlight <= 1

\* C9, as stated: the XP stored in the remote profile equals its initial
\* value plus the sum of the rewards of all events whose write succeeded.
C9_Original_NoIncrementLost ==
    remote.exists => remote.data.xp = xpInitial + xpEarned

\* The questions of the quiz of the active pack, by type.
SentMc == OrEmpty(studyData.quiz.multiple_choice)
SentTf == OrEmpty(studyData.quiz.true_false)
SentFib == OrEmpty(studyData.quiz.fill_in_blank)
SentTotal == Len(SentMc) + Len(SentTf) + Len(SentFib)

\* The type of the question at index i of the concatenation multiple-choice,
\* true/false, fill-in-blank, and the question as the response sent it.
TypeAt(i) ==
    IF i < Len(SentMc) THEN "mc"
    ELSE IF i < Len(SentMc) + Len(SentTf) THEN "tf"
    ELSE "fib"
SentAt(i) ==
    IF i < Len(SentMc) THEN SentMc[i + 1]
    ELSE IF i < Len(SentMc) + Len(SentTf) THEN SentTf[i + 1 - Len(SentMc)]
    ELSE SentFib[i + 1 - Len(SentMc) - Len(SentTf)]

\* The characters of s between its first and its last non-blank character,
\* capitals as small letters.
Normalised(s) ==
    LET inked == {i \in 1..Len(s) : s[i] # " "}
        first == CHOOSE i \in inked : \A j \in inked : i <= j
        last == CHOOSE i \in inked : \A j \in inked : j <= i
    IN IF inked = {}
       THEN <<>>
       ELSE [k \in 1..(last - first + 1) |->
                LET c == s[first + k - 1]
                IN IF c = "A" THEN "a" ELSE IF c = "B" THEN "b" ELSE c]

\* An answer is recorded for index i and matches under the rule of the type.
Matches(i) ==
    /\ i \in DOMAIN answers
    /\ answers[i] # Undefined
    /\ CASE TypeAt(i) = "mc" -> answers[i] = SentAt(i).correctIndex
         [] TypeAt(i) = "tf" -> answers[i] = SentAt(i).answer
         [] TypeAt(i) = "fib" ->
               Normalised(String(answers[i])) = Normalised(String(SentAt(i).answer))

\* C10: the quiz score equals the number of questions, at index i of the
\* concatenation multiple-choice, true/false, fill-in-blank, for which an
\* answer is recorded and matches under the rule of the question's type;
\* hence 0 <= score <= number of questions.
C10_ScoreCountsMatches ==
    QuizModuleRendered =>
       /\ totalQuestions = SentTotal
       /\ score = Cardinality({i \in 0..(SentTotal - 1) : Matches(i)})
       /\ 0 <= score
       /\ score <= totalQuestions

\* A submitted quiz of one question of each type scores 2: the option
\* chosen is wrong, the boolean is right and the text typed equals the
\* expected one up to blanks and case only.
C10_Witness ==
    /\ QuizModuleRendered
    /\ showResults
    /\ studyData.quiz = SampleQuiz
    /\ DOMAIN answers = 0..2
    /\ answers[0] = JsNumber(0)
    /\ answers[1] = JsBoolean(TRUE)
    /\ answers[2] = JsString(<<" ", "A", " ">>)
    /\ score = 2

\* The question at index i as QuizModule grades it.
GradedAt(i) == allQuestions[i + 1]

\* C11: a multiple-choice question counts as correct if and only if the
\* submitted option index equals its correct index, and a question of any
\* type with no recorded answer never adds to the score, whatever its
\* correctIndex or answer field holds (a missing field included).
C11_McByIndexUnansweredNeverCounts ==
    QuizModuleRendered =>
       /\ \A i \in 0..(totalQuestions - 1) :
             /\ (TypeAt(i) = "mc" /\ i \in DOMAIN answers) =>
                   (callback(0, GradedAt(i), i) = 1 <=> answers[i] = SentAt(i).correctIndex)
             /\ i \notin DOMAIN answers =>
                   \A acc \in 0..totalQuestions : callback(acc, GradedAt(i), i) = acc
       /\ score <= Cardinality(DOMAIN answers)

\* A quiz whose second multiple-choice question has no correctIndex and no
\* recorded answer, while the first is answered with its correct index 0 and
\* every other answer is wrong: the score is 1.
C11_Witness ==
    /\ QuizModuleRendered
    /\ totalQuestions = 3
    /\ SentAt(0).correctIndex = JsNumber(0)
    /\ SentAt(1).correctIndex = Undefined
    /\ TypeAt(1) = "mc"
    /\ DOMAIN answers = {0, 2}
    /\ answers[0] = JsNumber(0)
    /\ answers[2] = JsString(<<"a", " ", "b">>)
    /\ score = 1

\* The letter c in the other case.
OtherCase(c) ==
    CASE c = "a" -> "A"
      [] c = "A" -> "a"
      [] c = "b" -> "B"
      [] c = "B" -> "b"
      [] OTHER -> c

\* Strings that differ from s only in case or in blanks around it.
Variants(s) ==
    LET swapped == [k \in 1..Len(s) |-> OtherCase(s[k])]
    IN {pre \o t \o post : pre \in {<<>>, <<" ">>}, t \in {s, swapped}, post \in {<<>>, <<" ">>}}

\* C12: fill-in-blank grading is insensitive to letter case and to leading
\* and trailing whitespace on both the submitted and the expected answer
\* (answers that differ only in these are graded the same), and a difference
\* in interior whitespace or in any other character makes the answer
\* incorrect.
C12_FibCaseAndBlankInsensitive ==
    QuizModuleRendered =>
       \A i \in DOMAIN answers :
          TypeAt(i) = "fib" =>
             LET typed == String(answers[i])
                 expected == String(SentAt(i).answer)
             IN /\ \A t \in Variants(typed), e \in Variants(expected) :
                      isCorrect([GradedAt(i) EXCEPT !.answer = JsString(e)], JsString(t))
                         = isCorrect(GradedAt(i), answers[i])
                /\ Normalised(typed) # Normalised(expected) =>
                      ~isCorrect(GradedAt(i), answers[i])

\* The text typed and the expected text differ in case and in the blanks
\* around them, and the answer is graded correct.
C12_Witness ==
    /\ QuizModuleRendered
    /\ \E i \in DOMAIN answers :
          /\ TypeAt(i) = "fib"
          /\ answers[i] = JsString(<<" ", "A", " ">>)
          /\ SentAt(i).answer = JsString(<<"a">>)
          /\ isCorrect(GradedAt(i), answers[i])
    /\ score = 3

\* The number of questions with a recorded, matching answer.
MatchCount == Cardinality({i \in 0..(SentTotal - 1) : Matches(i)})

\* C13: the quiz score is derived state.  In every state of the quiz the
\* score is the grading of the current question list and answer map; a
\* submission or a retake, which change neither of them, leave the score as
\* it was (nothing writes a score); and, the score being computed on every
\* render, a step changes the answer map only by answering, retaking or
\* leaving the quiz and changes the profile only by the writes of a
\* submission.
C13_ScoreIsDerived ==
    /\ [](QuizModuleRendered => score = MatchCount)
    /\ [][(QuizModuleRendered /\ QuizModuleRendered') =>
             /\ (showResults' # showResults /\ answers' = answers /\ studyData' = studyData) =>
                   score' = score
             /\ answers' # answers => (~showResults /\ ~showResults') \/ (showResults /\ ~showResults')
             /\ remote' # remote => (~showResults /\ showResults' /\ answers' = answers)]_vars

\* The results of a submitted quiz are shown with a score of 1 out of 3,
\* after the profile write of the submission.
C13_Witness ==
    /\ QuizModuleRendered
    /\ showResults
    /\ totalQuestions = 3
    /\ score = 1
    /\ rewardEvents = 1
    /\ xpEarned = 50

\* The questions of the quizzes whose rewards are compared.
MaxQuestions == 5

\* C14: the XP reward of a quiz submission is monotonic in the score ratio:
\* for any two submissions with ratios s1/n1 <= s2/n2, the reward of the
\* first is at most the reward of the second.
C14_RewardMonotonic ==
    /\ \A n1 \in 1..MaxQuestions, n2 \in 1..MaxQuestions :
          \A s1 \in 0..n1, s2 \in 0..n2 :
             s1 * n2 <= s2 * n1 =>
                rewardXpFor(Quotient(s1, n1)) <= rewardXpFor(Quotient(s2, n2))
    /\ (QuizModuleRendered /\ totalQuestions > 0) =>
          \A n \in 1..MaxQuestions :
             \A s \in 0..n :
                /\ s * totalQuestions <= score * n => rewardXpFor(Quotient(s, n)) <= rewardXp
                /\ score * n <= s * totalQuestions => rewardXp <= rewardXpFor(Quotient(s, n))

\* Two submissions were rewarded, one with 50 and one with 200 XP.
C14_Witness ==
    /\ rewardEvents = 2
    /\ xpEarned = 250
    /\ showResults
    /\ rewardXp \in {50, 200}

\* The profile after a write that sets the fields of `updates`, or after a
\* rejected one.
Written(data, updates, accepted) ==
    IF accepted
    THEN [f \in DOMAIN data |-> IF f \in DOMAIN updates THEN updates[f] ELSE data[f]]
    ELSE data

\* The XP of the tier of s correct answers out of n (0 / 0 is in no tier
\* above the lowest).
TierXp(s, n) ==
    IF n > 0 /\ 10 * s > 8 * n THEN 200
    ELSE IF n > 0 /\ 10 * s > 5 * n THEN 100
    ELSE 50

\* snapshot + s / n in sixtieths; NaN once 0 / 0 or NaN is added.
TotalPlus(snapshot, s, n) ==
    IF snapshot.nan \/ n = 0
    THEN [nan |-> TRUE, units |-> 0]
    ELSE [nan |-> FALSE, units |-> snapshot.units + (60 * s) \div n]

\* C15: submitting a quiz with score s out of n questions issues a write
\* that sets xp to the snapshot xp plus 200 when s/n > 0.8, plus 100 when
\* 0.5 < s/n <= 0.8 and plus 50 otherwise, quiz_attempts to the snapshot
\* value plus 1 and quiz_total_score to the snapshot value plus s/n, and a
\* write that sets streak to the snapshot value plus 1; it also sets
\* showResults to true and leaves the answers.  Each write takes effect
\* unless the store rejects it.
C15_SubmitWrites ==
    [][(QuizModuleRendered /\ ~showResults /\ showResults') =>
          /\ SubmitEnabled
          /\ answers' = answers
          /\ \E first \in BOOLEAN, second \in BOOLEAN :
                /\ remote'.data =
                      Written(Written(remote.data,
                                      [xp |-> userData.xp + TierXp(score, totalQuestions),
                                       quiz_attempts |-> userData.quiz_attempts + 1,
                                       quiz_total_score |->
                                          TotalPlus(userData.quiz_total_score, score,
                                                    totalQuestions)],
                                      first),
                              [streak |-> userData.streak + 1], second)
                /\ xpEarned' = xpEarned + IF first THEN TierXp(score, totalQuestions) ELSE 0]_vars

\* A quiz of two questions was submitted with one correct answer: the ratio
\* 1/2 is not above 0.5, so the first write added 50 XP, one attempt and 1/2
\* to the total, and the second added one day to the streak.
C15_Witness ==
    /\ QuizModuleRendered
    /\ showResults
    /\ totalQuestions = 2
    /\ score = 1
    /\ rewardEvents = 1
    /\ remote.data.xp = xpInitial + 50
    /\ remote.data.quiz_attempts = ReturningUserData.quiz_attempts + 1
    /\ remote.data.quiz_total_score = Num(ReturningUserData.quiz_total_score.units + 30)
    /\ remote.data.streak = ReturningUserData.streak + 1

\* C16, as stated: the completion reward is issued once per completion even
\* when Next is invoked again before the 150 ms transition fires, so the
\* mounted deck never has two rewarding callbacks pending.
C16_Original_OncePerCompletion ==
    Cardinality({i \in 1..Len(timers) : Rewards(timers[i]) /\ timers[i].mounted}) <= 1

\* The objects a response to the generation request with this serial number
\* can be parsed to.
PacksOf(serial) == {Pack(serial, c) : c \in ResponseContents}

\* C17: the active study pack is absent or exactly the object parsed from
\* the most recent successful generation response.  It changes only by being
\* cleared when a generation request starts, by being cleared by a new
\* session, and by being set whole from the response of the request in
\* flight, the latest one started; every other operation leaves it.
C17_PackFromOneResponse ==
    [][/\ studyData' # studyData =>
             \/ studyData' = NoPack /\ ~loading /\ loading'
             \/ studyData' = NoPack /\ ~loading /\ ~loading' /\ activeTab' = "input"
             \/ /\ loading /\ ~loading'
                /\ genCalls' = {}
                /\ \E call \in genCalls :
                      call.serial = genStarted /\ studyData' \in PacksOf(call.serial)
       /\ (~loading /\ loading') => studyData' = NoPack
       /\ studyData' = NoPack \/ studyData' \in PacksOf(genStarted')]_vars

\* The pack of the second generation is studied on the quiz tab while a
\* speech request is in flight.
C17_Witness ==
    /\ studyData \in PacksOf(2)
    /\ genStarted = 2
    /\ activeTab = "quiz"
    /\ ttsInFlight = 1
    /\ ~loading

\* C18: a terminal failure of a generation request (an error object in the
\* body, a body without candidates, unparsable JSON, a 4xx that is not
\* retried) triggers no recovery attempt and ends with loading false, no
\* active study pack, a non-empty error message and the active tab 'input',
\* with no XP awarded.  The step that ends a request either is a success,
\* which shows the summary tab and sets no message, or is such a failure.
C18_TerminalFailure ==
    [][(loading /\ ~loading' /\ activeTab' # "summary") =>
          /\ error' # ""
          /\ activeTab' = "input"
          /\ studyData' = NoPack
          /\ genCalls' = {}
          /\ genStarted' = genStarted
          /\ remote' = remote
          /\ xpEarned' = xpEarned
          /\ ~snapshotDue' \/ snapshotDue]_vars

\* The first generation of a signed-in user has failed.
C18_Witness ==
    /\ ~loading
    /\ error = FailureMessage(NoContent)
    /\ studyData = NoPack
    /\ activeTab = "input"
    /\ genStarted = 1
    /\ genCalls = {}
    /\ signedIn
    /\ remote.exists
    /\ xpEarned = 0

\* C19: a failed write to the remote profile never blocks UI progress.  The
\* local UI state after a step that issues a write is fixed by the state
\* before it, whether the store accepts the write or rejects it: a submitted
\* quiz shows its results and keeps its answers, a fired timeout of the deck
\* sets the index it was to set, a successful generation shows its pack on
\* the summary tab with loading cleared, and none of them sets an error
\* message.
C19_WriteFailureDoesNotBlock ==
    [][/\ (QuizModuleRendered /\ rewardEvents' = rewardEvents + 1 /\ timers' = timers) =>
             /\ showResults'
             /\ answers' = answers
             /\ UNCHANGED <<loading, studyData, activeTab, error>>
       /\ (timers # <<>> /\ timers' = Tail(timers)) =>
             /\ Head(timers).mounted =>
                   currentIndex' =
                      IF Head(timers).kind = "next"
                      THEN (Head(timers).currentIndex + 1) % Head(timers).cards
                      ELSE (currentIndex - 1 + Head(timers).cards) % Head(timers).cards
             /\ UNCHANGED <<loading, studyData, activeTab, error>>
       /\ (loading /\ ~loading' /\ studyData' # NoPack) =>
             /\ activeTab' = "summary"
             /\ error' = error
             /\ genCalls' = {}]_vars

\* The results of a quiz are shown although the store rejected both writes
\* of the submission.
C19_Witness ==
    /\ QuizModuleRendered
    /\ showResults
    /\ rewardEvents = 1
    /\ remote = Document(ReturningUserData)
    /\ xpEarned = 0
    /\ ~snapshotDue

\* C20, as stated: when the response of a speech request arrives after the
\* user has left the summary (another tab, a new session), it is ignored: it
\* does not change the audio URL and starts no playback.
C20_Original_ResultIgnoredAfterNavigation ==
    [][(ttsInFlight' = ttsInFlight - 1 /\ ~SummaryModuleRendered) =>
          (ttsAudioUrl' = ttsAudioUrl /\ audios' = audios)]_vars

\* C21, as stated: uploaded files are held for one generation request only:
\* when the request of an invocation that sent files ends, the uploaded-file
\* list is empty, so that a later request does not send them again.
C21_Original_FilesHeldForOneGeneration ==
    [][\A call \in genCalls :
          (call \notin genCalls' /\ call.files > 0) => uploadedFiles' = 0]_vars

\* C22: the answer map belongs to one attempt.  While the results of a
\* submitted quiz stay shown no step changes the answer map (handleAnswer
\* returns at once), and the step that hides them, Retake, leaves the answer
\* map empty and the score of the next attempt at 0.
C22_AnswersOfOneAttempt ==
    [][(QuizModuleRendered /\ showResults /\ QuizModuleRendered') =>
          /\ showResults' => answers' = answers
          /\ ~showResults' => (answers' = EmptyAnswers /\ score' = 0)]_vars

\* After a submission the quiz is open again and the only answer recorded,
\* a right one to the second question, makes a score of 1.
C22_Witness ==
    /\ QuizModuleRendered
    /\ ~showResults
    /\ rewardEvents = 1
    /\ studyData.quiz = SampleQuiz
    /\ DOMAIN answers = {1}
    /\ answers[1] = JsBoolean(TRUE)
    /\ score = 1

\* The profile of a first use: streak 0, XP 0, the badge Starter and every
\* analytics counter 0.
FirstUseProfile ==
    [xp |-> 0, streak |-> 0, badges |-> <<"Starter">>,
     fc_learned |-> 0, quiz_attempts |-> 0, quiz_total_score |-> Num(0)]

\* C23: a delivery of the profile subscription that finds no document
\* creates it as the first-use profile (or, the write failing, changes
\* nothing); a delivery that finds a document makes the local profile that
\* document's data and writes nothing; and no step turns an existing
\* document into the first-use profile.
C23_SeedOnFirstUseOnly ==
    [][/\ (snapshotDue /\ ~snapshotDue') =>
             IF remote.exists
             THEN userData' = remote.data /\ remote' = remote
             ELSE \/ remote' = Document(FirstUseProfile) /\ userData' = FirstUseProfile
                  \/ remote' = remote /\ userData' = userData
       /\ (remote.exists /\ remote.data # FirstUseProfile) =>
             (remote'.exists /\ remote'.data # FirstUseProfile)]_vars

\* A first use: the document has been created with the first-use profile
\* and the local profile is that profile.
C23_Witness ==
    /\ signedIn
    /\ ~snapshotDue
    /\ xpEarned = 0
    /\ remote = Document(FirstUseProfile)
    /\ userData = FirstUseProfile
    /\ userData # DefaultUserData

\* C24: the mnemonics view of a pack with an empty mnemonic list shows the
\* empty-state message and no mnemonic card; the view of a pack with a
\* non-empty list shows one card per mnemonic and no empty-state message.
C24_EmptyStateIffNoMnemonics ==
    MemoryHacksModuleRendered =>
       IF studyData.mnemonics = 0
       THEN EmptyStateShown /\ MnemonicCards = 0
       ELSE ~EmptyStateShown /\ MnemonicCards = studyData.mnemonics /\ MnemonicCards > 0

\* The mnemonics view of a generated pack that has no mnemonic.
C24_Witness ==
    /\ MemoryHacksModuleRendered
    /\ studyData.mnemonics = 0
    /\ EmptyStateShown
    /\ genStarted > 0

\* C25: every generation request eventually clears the busy flag.  Every
\* request of fetch resolving or rejecting, and every timer firing, a state
\* in which loading is set leads to one in which it is cleared, on every
\* path: a pack, an API error, a malformed response, retries exhausted, a
\* network failure.
C25_LoadingEventuallyCleared == loading ~> ~loading

\* A generation has ended after fetchWithBackoff gave up on network
\* failures: six requests were made, the busy flag is cleared and the
\* failure message is set.
C25_Witness ==
    /\ ~loading
    /\ genStarted = 1
    /\ genCalls = {}
    /\ fbPc = "threw"
    /\ fbRequests = MAX_RETRIES + 1
    /\ error = FailureMessage(NetworkError)

\* C26, as stated: every speech request eventually clears its busy flag.
\* Every request ending and every play() resolving or rejecting, a state in
\* which isTtsLoading is set leads to one in which it is cleared, also when
\* the audio is decoded and its playback is rejected.
C26_Original_TtsLoadingEventuallyCleared == isTtsLoading ~> ~isTtsLoading

\* C27, as stated: the recorded XP never decreases: every write to the
\* remote profile leaves an XP greater than or equal to the one stored
\* before it.
C27_Original_XpNeverDecreases ==
    [][(remote.exists /\ remote'.exists) => remote'.data.xp >= remote.data.xp]_vars

\* C28, as stated: in every profile state the cumulative quiz score is a
\* number between 0 and the number of quiz attempts, also after the
\* submission of a quiz without questions.
C28_Original_TotalScoreWithinAttempts ==
    \A profile \in {remote.data, userData} :
       /\ ~profile.quiz_total_score.nan
       /\ 0 <= profile.quiz_total_score.units
       /\ profile.quiz_total_score.units <= 60 * profile.quiz_attempts

\* C29, as stated: whenever the submit control of the quiz is enabled, every
\* question is answered in the sense of isQuestionAnswered: the answered
\* counter shown on the control equals the number of questions.
C29_Original_SubmitOnlyWhenAllAnswered ==
    (QuizModuleRendered /\ ~showResults /\ SubmitEnabled) =>
       /\ answeredCount = totalQuestions
       /\ \A qIndex \in 0..(totalQuestions - 1) : isQuestionAnswered(qIndex)

\* C30, as stated: in every state in which no generation is loading, an
\* active tab that is one of the study tabs has a study pack to render.
C30_Original_StudyTabHasPack ==
    (~loading /\ activeTab \in StudyTabs) => studyData # NoPack
====
